---- MODULE Spec2Model ----
(***************************************************************************)
(* Brand forecasting pipeline: preprocess_data, forecast_with_prophet and  *)
(* run_lstm_forecast, modelled over tables of rows.  Cell values are exact *)
(* rationals <<n, d>>; NaN and +inf are the two cells with denominator 0.  *)
(* The numerical primitives (Prophet fit/predict, the LSTM) are modelled   *)
(* by what they do to the shape of the data: which rows they emit and      *)
(* under which inputs they raise.  Further specifications follow one      *)
(* loop iteration of run_lstm_forecast statement by statement, one run of  *)
(* the DAG, and the trend-score cache of generate_daily_sales.             *)
(***************************************************************************)
EXTENDS Integers, Sequences, FiniteSets, TLC

(***************************************************************************)
(* Bounds of the model.                                                    *)
(***************************************************************************)
\* longest per-brand history (in distinct dates) of a processed table
MaxRows == 30
\* most raw transaction rows of a raw table
MaxRawRows == 3
\* most calls of get_trend_score in one process
MaxCalls == 4

(***************************************************************************)
(* Cells.                                                                  *)
(***************************************************************************)
NaN == <<0, 0>>
Inf == <<1, 0>>

Abs(x) == IF x < 0 THEN -x ELSE x

RECURSIVE GCD(_, _)
GCD(a, b) == IF b = 0 THEN a ELSE GCD(b, a % b)

\* the rational n/d in lowest terms, d > 0
Q(n, d) ==
    LET g == GCD(Abs(n), Abs(d))
        s == IF d < 0 THEN -1 ELSE 1
    IN  <<(s * n) \div g, (s * d) \div g>>

Num(x) == Q(x, 1)

isnull(c) == c = NaN
isinf(c) == c = Inf
IsFinite(c) == c[2] # 0

AddQ(a, b) == Q(a[1] * b[2] + b[1] * a[2], a[2] * b[2])
SubQ(a, b) == Q(a[1] * b[2] - b[1] * a[2], a[2] * b[2])
DivInt(a, k) == Q(a[1], a[2] * k)

RECURSIVE SumCells(_)
SumCells(s) == IF s = <<>> THEN Num(0) ELSE AddQ(Head(s), SumCells(Tail(s)))

\* pandas "sum": NaN cells are skipped (an all-NaN group sums to 0), inf wins
agg_sum(s) ==
    LET v == SelectSeq(s, LAMBDA c : ~isnull(c))
    IN  IF \E i \in DOMAIN v : isinf(v[i]) THEN Inf ELSE SumCells(v)

\* pandas "mean": NaN cells are skipped, an all-NaN group has mean NaN
agg_mean(s) ==
    LET v == SelectSeq(s, LAMBDA c : ~isnull(c))
    IN  IF v = <<>> THEN NaN
        ELSE IF \E i \in DOMAIN v : isinf(v[i]) THEN Inf
        ELSE DivInt(SumCells(v), Len(v))

\* DataFrame.replace([inf, -inf], nan) on one cell
replace_inf(c) == IF isinf(c) THEN NaN ELSE c

\* Series.nunique(): the number of distinct non-NaN values
nunique(s) == Cardinality({s[i] : i \in DOMAIN s} \ {NaN})

(***************************************************************************)
(* Frames: a table is [cols, rows]; a row is a function from column names. *)
(***************************************************************************)
NoTable == [cols |-> {}, rows |-> <<>>]

\* a path of the data directory: missing, or a file holding a table
Absent == [exists |-> FALSE, content |-> NoTable]
File(t) == [exists |-> TRUE, content |-> t]

Column(rows, c) == [i \in DOMAIN rows |-> rows[i][c]]

MaxOf(S) == CHOOSE x \in S : \A y \in S : y <= x

\* the distinct dates of some rows, ascending (groupby sorts its keys)
SortedDates(rows) ==
    LET S == {rows[i].Date : i \in DOMAIN rows}
    IN  IF S = {} THEN <<>>
        ELSE SelectSeq([d \in 1..MaxOf(S) |-> d], LAMBDA d : d \in S)

Brands == <<"A", "B">>

\* a loop over df["Brand"], one iteration per row instead of per group
Brand_column(df) == [i \in DOMAIN df.rows |-> df.rows[i].Brand]

\* df.groupby("Brand"): the brands present, in sorted order
groupby_Brand(df) ==
    SelectSeq(Brands, LAMBDA b : \E i \in DOMAIN df.rows : df.rows[i].Brand = b)

BrandRows(df, b) == SelectSeq(df.rows, LAMBDA r : r.Brand = b)

\* brand_df.groupby("Date", as_index=False).agg(agg_dict): one row per date,
\* Total_Sales summed, every other column of agg_dict averaged
groupby_Date(rows, meanCols) ==
    LET ds == SortedDates(rows)
    IN  [i \in DOMAIN ds |->
            LET g == SelectSeq(rows, LAMBDA r : r.Date = ds[i])
            IN  [c \in {"Date", "Total_Sales"} \cup meanCols |->
                    IF c = "Date" THEN ds[i]
                    ELSE IF c = "Total_Sales" THEN agg_sum(Column(g, c))
                    ELSE agg_mean(Column(g, c))]]

HORIZON == 30

\* int(n * 0.8)
train_size(n) == (n * 8) \div 10

SeqToSet(s) == {s[i] : i \in DOMAIN s}

(***************************************************************************)
(* Seasonal Regression Forecaster: the body of the per-brand loop of       *)
(* forecast_with_prophet, as functions of the table df and the brand b.    *)
(***************************************************************************)
\* the covariates of the module-level list that the model carries
extra_regressors == <<"Competitor_Price", "Promotion">>

used_regressors(df) == SelectSeq(extra_regressors, LAMBDA c : c \in df.cols)

prophet_brand_df(df, b) ==
    groupby_Date(BrandRows(df, b),
                 {"Online_Popularity"} \cup SeqToSet(used_regressors(df)))

prophet_cols(df) == {"ds", "y", "Trend_Score"} \cup SeqToSet(used_regressors(df))

\* the rename Date -> ds, Total_Sales -> y, Online_Popularity -> Trend_Score
\* followed by replace([inf, -inf], nan)
prophet_row(r, df) ==
    [c \in prophet_cols(df) |->
        IF c = "ds" THEN r.Date
        ELSE IF c = "y" THEN replace_inf(r.Total_Sales)
        ELSE IF c = "Trend_Score" THEN replace_inf(r.Online_Popularity)
        ELSE replace_inf(r[c])]

\* the cleaned frame: rows whose y is missing are dropped
prophet_df(df, b) ==
    LET raw == prophet_brand_df(df, b)
    IN  SelectSeq([i \in DOMAIN raw |-> prophet_row(raw[i], df)],
                  LAMBDA r : ~isnull(r.y))

\* the model fitted on the whole frame
split_train_whole(p) == p

\* train, test = prophet_df[:train_size], prophet_df[train_size:]
split_train(p) == SubSeq(p, 1, train_size(Len(p)))

split_test(p) == SubSeq(p, train_size(Len(p)) + 1, Len(p))

prophet_train(df, b) == split_train(prophet_df(df, b))

prophet_test(df, b) == split_test(prophet_df(df, b))

\* train.isnull().any().any()
HasNull(rows, cols) ==
    \E i \in DOMAIN rows : \E c \in cols \ {"ds", "Date"} : isnull(rows[i][c])

\* the guard lowered to two rows
InsufficientRows_two(n) == n < 2

\* len(prophet_df) < 3
InsufficientRows(n) == n < 3

\* the guard without its test for missing values
TrainTooShort(train, cols) == Len(train) < 2

\* len(train) < 2 or train.isnull().any().any()
TrainUnusable(train, cols) == Len(train) < 2 \/ HasNull(train, cols)

\* the brand is skipped by one of the three "continue" guards; p is the
\* cleaned frame of the brand
prophet_skips(p, cols) ==
    \/ InsufficientRows(Len(p))
    \/ TrainUnusable(split_train(p), cols)
    \/ split_test(p) = <<>>

\* the test "nunique() > 0": a constant column passes
Admit_constant(train, reg) == nunique(Column(train, reg)) >= 1

\* a column is admitted when it has more than one distinct training value
Admit(train, reg) == nunique(Column(train, reg)) > 1

regressors_to_use(train, used) ==
    SelectSeq(<<"Trend_Score">> \o used, LAMBDA reg : Admit(train, reg))

\* Prophet.fit and Prophet.predict raise ValueError when the column of an
\* added regressor holds a NaN
regressor_has_nan(rows, regs) ==
    \E i \in DOMAIN rows : \E k \in DOMAIN regs : isnull(rows[i][regs[k]])

fit_raises(train, regs) == regressor_has_nan(train, regs)

predict_raises(test, regs) == regressor_has_nan(test, regs)

\* model.make_future_dataframe(periods): the history dates of the fitted
\* model followed by the next `periods` days after the last of them
make_future_dataframe(train, periods) ==
    LET last == train[Len(train)].ds
    IN  [i \in 1..Len(train) |-> train[i].ds]
        \o [k \in 1..periods |-> last + k]

\* forecast[["ds", "Brand", ...]] renamed: one row per date of `future`
prophet_forecast(train, b) ==
    LET future == make_future_dataframe(train, HORIZON)
    IN  [i \in DOMAIN future |-> [Date |-> future[i], Brand |-> b]]

(***************************************************************************)
(* Sequence Forecaster: the body of the per-brand loop of                  *)
(* run_lstm_forecast.                                                      *)
(***************************************************************************)
lstm_extra_regressors == <<"Competitor_Price">>

seq_length == 7

MIN_SAMPLES == 20

features(df) ==
    <<"Total_Sales", "Online_Popularity">>
    \o SelectSeq(lstm_extra_regressors, LAMBDA c : c \in df.cols)

lstm_brand_df(df, b) ==
    groupby_Date(BrandRows(df, b), SeqToSet(features(df)) \ {"Total_Sales"})

\* len(brand_df) < seq_length + 1
TooFewRows(n) == n < seq_length + 1

\* the sliding windows: sample i is rows i..i+seq_length-1 (1-based), its
\* label the Total_Sales of row i+seq_length
X(n) == [i \in 1..(n - seq_length) |-> [j \in 1..seq_length |-> i + j - 1]]

y(n) == [i \in 1..(n - seq_length) |-> i + seq_length]

\* len(X) < 20
TooFewSamples(k) == k < MIN_SAMPLES

\* X[:train_size] and X[train_size:] with train_size = int(len(X) * 0.8);
\* a sample is named by the rows of its window
train_samples(n) == SubSeq(X(n), 1, train_size(Len(X(n))))

test_samples(n) == SubSeq(X(n), train_size(Len(X(n))) + 1, Len(X(n)))

\* MinMaxScaler.fit_transform accepts NaN but raises ValueError on inf
scaler_raises(rows, feats) ==
    \E i \in DOMAIN rows : \E k \in DOMAIN feats : isinf(rows[i][feats[k]])

\* a NaN in any window or label reaches the predictions (through the
\* weights when it is a training sample), and mean_squared_error raises
\* ValueError on a NaN input
metrics_raise(rows, feats) ==
    LET n == Len(rows)
    IN  \/ \E i \in DOMAIN X(n) : \E j \in 1..seq_length : \E k \in DOMAIN feats :
              isnull(rows[X(n)[i][j]][feats[k]])
        \/ \E i \in DOMAIN y(n) : isnull(rows[y(n)[i]].Total_Sales)

\* pd.date_range(brand_df["Date"].max() + 1 day, periods=30)
future_dates(rows) == [k \in 1..HORIZON |-> rows[Len(rows)].Date + k]

lstm_forecast(rows, b) ==
    LET fd == future_dates(rows)
    IN  [i \in DOMAIN fd |-> [Date |-> fd[i], Brand |-> b]]

(***************************************************************************)
(* Processed tables the forecasters may be handed: per brand a history of  *)
(* n dates with one kind of irregularity.                                  *)
(***************************************************************************)
AllCols == {"Category", "Brand", "Date", "Total_Sales", "Online_Popularity",
            "Competitor_Price", "Promotion"}

Profiles ==
    {[n |-> 0, kind |-> "none"]}
    \cup [n : {2, 3, 5, 8, 26, 27, MaxRows}, kind : {"clean"}]
    \cup [n : {5}, kind : {"constCP", "constTrainCP", "constOP", "nanTestPromo",
                           "nanY", "dup"}]
    \cup [n : {5}, kind : {"nanTrainPromo"}]
    \cup [n : {MaxRows}, kind : {"nanTrainCP", "nanLastCP", "gap"}]
    \cup [n : {3, 8}, kind : {"infY"}]

ProfileRow(b, p, i, cat) ==
    [Category |-> cat,
     Brand |-> b,
     Date |-> IF p.kind = "gap" THEN 2 * i - 1 ELSE i,
     Total_Sales |->
        IF p.kind = "infY" /\ i = 2 THEN Inf
        ELSE IF p.kind = "nanY" THEN NaN
        ELSE Num(100 + i),
     Online_Popularity |->
        IF p.kind = "constOP" THEN Num(50) ELSE Num(i % 3),
     Competitor_Price |->
        IF p.kind = "constCP" THEN Num(5)
        ELSE IF p.kind = "constTrainCP"
            THEN (IF i <= train_size(p.n) THEN Num(5) ELSE Num(i + 1))
        ELSE IF p.kind = "nanTrainCP" /\ i = 2 THEN NaN
        ELSE IF p.kind = "nanLastCP" /\ i = p.n THEN NaN
        ELSE IF cat = "Cat2" THEN Num((i % 2) + 1)
        ELSE Num(i % 2),
     Promotion |->
        IF p.kind = "nanTrainPromo" /\ i = 1 THEN NaN
        ELSE IF p.kind = "nanTestPromo" /\ i = p.n THEN NaN
        ELSE Num((i + 1) % 2)]

ProfileRows(b, p) ==
    [i \in 1..p.n |-> ProfileRow(b, p, i, "Cat1")]
    \o (IF p.kind = "dup" THEN [i \in 1..p.n |-> ProfileRow(b, p, i, "Cat2")]
        ELSE <<>>)

ProcessedTable(pa, pb) ==
    [cols |-> AllCols,
     rows |-> ProfileRows(Brands[1], pa) \o ProfileRows(Brands[2], pb)]

ProcessedTables == {ProcessedTable(pa, pb) : pa \in Profiles, pb \in Profiles}

(***************************************************************************)
(* State.                                                                  *)
(***************************************************************************)
VARIABLES
    rawFile,        \* data/raw/brand_sales_dataset.csv
    processedFile,  \* data/processed/processed_sales.csv
    forecastFile,   \* per model: *_forecast_results.csv
    metricsFile,    \* per model: *_metrics.csv
    pc,             \* per function: "idle", "loop", "done" or "raised"
    df,             \* per model: the table read at entry
    todo,           \* per model: the brands the loop has not reached yet
    forecasts,      \* per model: forecast_results / forecasts
    metrics,        \* per model: metrics
    fitted,         \* per model: the fitted models: brand, regressors, and
                    \* what was handed to the fit and to the evaluation
    ret,            \* per function: what the call returned or raised
    \* the locals of one loop iteration of run_lstm_forecast
    at,             \* the statement the iteration has reached
    brand_df,       \* the per-date rows of the brand
    scaled,         \* the scaled feature rows, then the running series
    samples,        \* X and y
    model,          \* the trained network and what it was trained on
    last_seq,       \* the input window of the next rollout step
    future_scaled,  \* the synthetic rows of the rollout
    \* one run of the DAG brand_forecasting_pipeline
    task_state,     \* per task: the state of its task instance
    try_number,     \* per task: the attempts started
    telegram,       \* the messages sent, in order
    \* the module generate_daily_sales in one process
    trend_cache,    \* brand -> cached score
    fetched,        \* per brand: the outcomes of the queries made to the trend service
    returned        \* the calls of get_trend_score so far: brand and result

engine_vars == <<rawFile, processedFile, forecastFile, metricsFile, pc, df, todo,
                 forecasts, metrics, fitted, ret>>

iteration_vars == <<at, brand_df, scaled, samples, model, last_seq, future_scaled>>

dag_vars == <<task_state, try_number, telegram>>

trend_vars == <<trend_cache, fetched, returned>>

vars == <<engine_vars, iteration_vars, dag_vars, trend_vars>>

Models == {"prophet", "lstm"}
Functions == Models \cup {"preprocess"}

\* what a call has produced for its caller: nothing yet, the value None,
\* a returned list (or table), or an exception
Pending == [kind |-> "pending", value |-> <<>>]
None == [kind |-> "none", value |-> <<>>]
Raise(e) == [kind |-> "raise", value |-> <<e>>]
Return(v) == [kind |-> "value", value |-> v]

\* what an earlier run may have left in the output directory
StaleForecast == [cols |-> {"Date", "Brand"}, rows |-> <<[Date |-> 1, Brand |-> "Old"]>>]
StaleMetrics == [cols |-> {"Brand"}, rows |-> <<[Brand |-> "Old"]>>]

StaleProcessed == ProcessedTable([n |-> 3, kind |-> "clean"], [n |-> 0, kind |-> "none"])

\* the existence check left out
exists_unchecked(file) == TRUE

\* os.path.exists(PROCESSED_FILE) / os.path.exists(RAW_DATA_FILE)
exists(file) == file.exists

(***************************************************************************)
(* preprocess_data, step by step, on the rows of the raw table.            *)
(***************************************************************************)
Categories == <<"Cat1", "Cat2">>
Regions == <<"North", "South">>

IndexOf(seq, v) == CHOOSE i \in DOMAIN seq : seq[i] = v

LtQ(a, b) == a[1] * b[2] < b[1] * a[2]
LeQ(a, b) == a[1] * b[2] <= b[1] * a[2]

\* the k-th smallest of a sequence of finite cells
KthSmallest(v, k) ==
    CHOOSE c \in SeqToSet(v) :
        /\ Cardinality({i \in DOMAIN v : LtQ(v[i], c)}) < k
        /\ k <= Cardinality({i \in DOMAIN v : LeQ(v[i], c)})

\* Series.median(): NaN cells are skipped, an all-NaN column has median NaN
median(s) ==
    LET v == SelectSeq(s, LAMBDA c : ~isnull(c))
        k == Len(v)
    IN  IF k = 0 THEN NaN
        ELSE IF k % 2 = 1 THEN KthSmallest(v, (k + 1) \div 2)
        ELSE DivInt(AddQ(KthSmallest(v, k \div 2), KthSmallest(v, (k \div 2) + 1)), 2)

\* df[col] = df[col].fillna(value)
fillna(rows, col, value) ==
    [i \in DOMAIN rows |->
        IF isnull(rows[i][col]) THEN [rows[i] EXCEPT ![col] = value] ELSE rows[i]]

fill_median(rows, col) == fillna(rows, col, median(Column(rows, col)))

\* the columns whose missing values the function replaces by the median
numeric_fill_cols == <<"Competitor_Price">>

median_filled == <<"Online_Popularity", "Total_Sales", "Quantity_Sold">>

RECURSIVE fill_all(_, _, _)
fill_all(rows, cols, present) ==
    IF cols = <<>> THEN rows
    ELSE fill_all(IF Head(cols) \in present THEN fill_median(rows, Head(cols))
                  ELSE rows,
                  Tail(cols), present)

\* "Handle missing values"
handle_missing(t) ==
    LET a == fill_all(t.rows, median_filled \o numeric_fill_cols, t.cols)
    IN  IF "Is_Holiday" \in t.cols THEN fillna(a, "Is_Holiday", Num(0)) ELSE a

NaT == -1

\* pd.to_datetime(..., errors="coerce"): a text that is no date becomes NaT
to_datetime(d) == IF d >= 1 THEN d ELSE NaT

\* NaT sorts last
DateKey(d) == IF d = NaT THEN 1000000 ELSE d

\* df.sort_values(by=["Brand", "Date"]): stable
BrandDateBefore(r, q) ==
    \/ IndexOf(Brands, r.Brand) < IndexOf(Brands, q.Brand)
    \/ r.Brand = q.Brand /\ DateKey(r.Date) < DateKey(q.Date)

sort_values(rows) ==
    LET rank(j) == Cardinality({k \in DOMAIN rows :
                        \/ BrandDateBefore(rows[k], rows[j])
                        \/ ~BrandDateBefore(rows[j], rows[k]) /\ k < j}) + 1
    IN  [i \in DOMAIN rows |-> rows[CHOOSE j \in DOMAIN rows : rank(j) = i]]

\* LabelEncoder.fit_transform: the rank of the value among the distinct
\* values of the column
LabelEncode(rows, col, order, v) ==
    Cardinality({IndexOf(order, rows[k][col]) : k \in DOMAIN rows}
                \cap 1..(IndexOf(order, v) - 1))

encode(rows) ==
    [i \in DOMAIN rows |->
        [c \in DOMAIN rows[i] \cup {"Category_Encoded", "Brand_Encoded", "Region_Encoded"} |->
            IF c = "Category_Encoded"
                THEN LabelEncode(rows, "Category", Categories, rows[i].Category)
            ELSE IF c = "Brand_Encoded"
                THEN LabelEncode(rows, "Brand", Brands, rows[i].Brand)
            ELSE IF c = "Region_Encoded"
                THEN LabelEncode(rows, "Region", Regions, rows[i].Region)
            ELSE rows[i][c]]]

\* the positions of the rows of row i's brand, up to and including i
SameBrandUpTo(rows, i) == {k \in 1..i : rows[k].Brand = rows[i].Brand}
SameBrand(rows, i) == {k \in DOMAIN rows : rows[k].Brand = rows[i].Brand}

\* groupby("Brand")["Total_Sales"].shift(1)
shift1(rows, i) ==
    LET before == SameBrandUpTo(rows, i) \ {i}
    IN  IF before = {} THEN NaN ELSE rows[MaxOf(before)].Total_Sales

\* x.rolling(3, min_periods=1).mean() within the brand
rolling_mean3(rows, i) ==
    LET own == SameBrandUpTo(rows, i)
        win == {k \in own : Cardinality({j \in own : j > k}) < 3}
        obs == SelectSeq([k \in 1..i |-> IF k \in win THEN rows[k].Total_Sales ELSE NaN],
                         LAMBDA c : ~isnull(c))
    IN  IF obs = <<>> THEN NaN ELSE DivInt(SumCells(obs), Len(obs))

\* x.ffill().bfill() within the brand, on column col
ffill_bfill(rows, col, i) ==
    LET own == SameBrand(rows, i)
        prev == {k \in own : k <= i /\ ~isnull(rows[k][col])}
        next == {k \in own : k >= i /\ ~isnull(rows[k][col])}
    IN  IF prev # {} THEN rows[MaxOf(prev)][col]
        ELSE IF next # {} THEN rows[CHOOSE k \in next : \A j \in next : k <= j][col]
        ELSE NaN

\* "Feature engineering: lags and rolling mean for Total_Sales per brand"
feature_engineering(rows) ==
    LET a == [i \in DOMAIN rows |->
                [c \in DOMAIN rows[i] \cup {"Sales_Lag_1", "Sales_MA_3"} |->
                    IF c = "Sales_Lag_1" THEN shift1(rows, i)
                    ELSE IF c = "Sales_MA_3" THEN rolling_mean3(rows, i)
                    ELSE rows[i][c]]]
    IN  [i \in DOMAIN a |->
            [a[i] EXCEPT !["Sales_Lag_1"] = ffill_bfill(a, "Sales_Lag_1", i),
                         !["Sales_MA_3"] = IF isnull(a[i].Sales_MA_3)
                                           THEN a[i].Total_Sales
                                           ELSE a[i].Sales_MA_3]]

numeric_cols_to_normalize ==
    <<"Quantity_Sold", "Online_Popularity", "Sales_Lag_1", "Sales_MA_3",
      "Competitor_Price">>

\* (x - x.mean()) / (x.std() + 1e-6): the cell keeps x - mean; the division
\* by the column's positive constant std + 1e-6 is left out, it changes
\* neither which cells are NaN nor which cells of the column are equal.
\* The sample std of fewer than two values is NaN, and so is the column.
normalize_column(rows, col) ==
    LET v == SelectSeq(Column(rows, col), LAMBDA c : ~isnull(c))
        mean == DivInt(SumCells(v), Len(v))
    IN  [i \in DOMAIN rows |->
            [rows[i] EXCEPT ![col] =
                IF Len(v) < 2 \/ isnull(rows[i][col]) THEN NaN
                ELSE SubQ(rows[i][col], mean)]]

RECURSIVE normalize(_, _, _)
normalize(rows, cols, present) ==
    IF cols = <<>> THEN rows
    ELSE normalize(IF Head(cols) \in present THEN normalize_column(rows, Head(cols))
                   ELSE rows,
                   Tail(cols), present)

\* the aggregation of each column; "first" for the codes and the category
agg_dict ==
    [Total_Sales |-> "sum", Quantity_Sold |-> "sum", Online_Popularity |-> "mean",
     Competitor_Price |-> "mean", Promotion |-> "mean", Is_Holiday |-> "mean",
     Sales_Lag_1 |-> "mean", Sales_MA_3 |-> "mean", Category_Encoded |-> "first",
     Brand_Encoded |-> "first", Region_Encoded |-> "first", Category |-> "first"]

GroupKey(r) == <<r.Category, r.Brand, r.Date>>

\* the keys in the order groupby emits them; a row with a NaT key is dropped
KeyBefore(k, l) ==
    \/ IndexOf(Categories, k[1]) < IndexOf(Categories, l[1])
    \/ k[1] = l[1] /\ IndexOf(Brands, k[2]) < IndexOf(Brands, l[2])
    \/ k[1] = l[1] /\ k[2] = l[2] /\ k[3] < l[3]

group_keys(rows) ==
    LET K == {GroupKey(rows[i]) : i \in {j \in DOMAIN rows : rows[j].Date # NaT}}
    IN  [i \in 1..Cardinality(K) |->
            CHOOSE k \in K : Cardinality({l \in K : KeyBefore(l, k)}) = i - 1]

\* the frame saved without the aggregation
not_aggregated(rows, present) == rows

\* df.groupby(["Category", "Brand", "Date"], as_index=False).agg(agg_dict)
aggregate(rows, present) ==
    LET keys == group_keys(rows)
        outCols == {c \in DOMAIN agg_dict : c \in present} \cup {"Category", "Brand", "Date"}
    IN  [i \in DOMAIN keys |->
            LET g == SelectSeq(rows, LAMBDA r : GroupKey(r) = keys[i])
            IN  [c \in outCols |->
                    IF c = "Brand" THEN keys[i][2]
                    ELSE IF c = "Date" THEN keys[i][3]
                    ELSE IF agg_dict[c] = "sum" THEN agg_sum(Column(g, c))
                    ELSE IF agg_dict[c] = "mean" THEN agg_mean(Column(g, c))
                    ELSE g[1][c]]]

EngineeredCols ==
    {"Category_Encoded", "Brand_Encoded", "Region_Encoded", "Sales_Lag_1", "Sales_MA_3"}

\* the frame after the lag/rolling feature step
engineered(t) ==
    LET filled == handle_missing(t)
        dated == [i \in DOMAIN filled |->
                    [filled[i] EXCEPT !["Date"] = to_datetime(filled[i].Date)]]
    IN  feature_engineering(encode(sort_values(dated)))

\* the table preprocess_data saves and returns
preprocess(t) ==
    LET present == t.cols \cup EngineeredCols
        normed == normalize(engineered(t), numeric_cols_to_normalize, present)
    IN  [cols |-> {c \in DOMAIN agg_dict : c \in present} \cup {"Category", "Brand", "Date"},
         rows |-> aggregate(normed, present)]

(***************************************************************************)
(* Raw tables: up to MaxRawRows transaction rows.                          *)
(***************************************************************************)
RawCols == {"Category", "Brand", "Region", "Date", "Total_Sales", "Quantity_Sold",
            "Online_Popularity", "Competitor_Price", "Promotion", "Is_Holiday"}

RawRow(cat, b, d, sales, promo, price) ==
    [Category |-> cat, Brand |-> b, Region |-> IF b = "A" THEN "North" ELSE "South",
     Date |-> d, Total_Sales |-> sales, Quantity_Sold |-> Num(2),
     Online_Popularity |-> IF d = 2 THEN NaN ELSE Num(40 + d),
     Competitor_Price |-> price, Promotion |-> promo,
     Is_Holiday |-> IF d = 1 THEN NaN ELSE Num(1)]

\* Date 0 stands for a text that is not a date
RawRows ==
    {RawRow("Cat1", "A", 1, Num(10), Num(0), Num(3)),
     RawRow("Cat1", "A", 2, NaN, NaN, Num(4)),
     RawRow("Cat2", "A", 1, Num(30), Num(0), Num(3)),
     RawRow("Cat1", "B", 1, Num(10), NaN, Num(3)),
     RawRow("Cat1", "B", 2, Num(40), Num(1), NaN),
     RawRow("Cat1", "A", 0, Num(10), Num(0), Num(3))}

RawTablesOf(len) == {[cols |-> RawCols, rows |-> r] : r \in [1..len -> RawRows]}

\* the raw table of the pipeline run: three rows of brand A, one of brand B
PipelineRawTable ==
    [cols |-> RawCols,
     rows |-> <<RawRow("Cat1", "A", 1, Num(10), Num(0), Num(3)),
                RawRow("Cat1", "A", 2, NaN, NaN, Num(4)),
                RawRow("Cat1", "B", 1, Num(10), NaN, Num(3)),
                RawRow("Cat1", "A", 3, Num(30), Num(1), Num(5))>>]

RawTables == UNION {RawTablesOf(len) : len \in 1..MaxRawRows}

(***************************************************************************)
(* Actions.                                                                *)
(***************************************************************************)
\* no model yet
NoModel == [net |-> "none", X_train |-> <<>>, y_train |-> <<>>,
            X_test |-> <<>>, y_test |-> <<>>]

\* no iteration of run_lstm_forecast is being followed
IterationIdle ==
    /\ at = "idle"
    /\ brand_df = <<>>
    /\ scaled = <<>>
    /\ samples = [X |-> <<>>, y |-> <<>>]
    /\ model = NoModel
    /\ last_seq = <<>>
    /\ future_scaled = <<>>

\* the task_ids of the DAG, t0 .. t7
Tasks ==
    {"generate_historical_data", "collect_trends", "preprocess_data",
     "forecast_prophet", "forecast_lstm", "generate_visualizations",
     "notify_success"}

\* no task instance of the DAG run has been scheduled
DagIdle ==
    /\ task_state = [t \in Tasks |-> "none"]
    /\ try_number = [t \in Tasks |-> 0]
    /\ telegram = <<>>

\* the brands get_trend_score is called with
TrendBrands == {"Amul", "Pepsi"}

\* trend_cache = {} at import, and no call made
TrendIdle ==
    /\ trend_cache = [b \in {} |-> NaN]
    /\ fetched = [b \in TrendBrands |-> <<>>]
    /\ returned = <<>>

\* an earlier run may have left its output files behind
EarlierOutputs(stale) ==
    /\ forecastFile = [m \in Models |-> IF stale THEN File(StaleForecast) ELSE Absent]
    /\ metricsFile = [m \in Models |-> IF stale THEN File(StaleMetrics) ELSE Absent]

NothingStarted ==
    /\ pc = [f \in Functions |-> "idle"]
    /\ df = [m \in Models |-> NoTable]
    /\ todo = [m \in Models |-> <<>>]
    /\ forecasts = [m \in Models |-> <<>>]
    /\ metrics = [m \in Models |-> <<>>]
    /\ fitted = [m \in Models |-> <<>>]
    /\ ret = [f \in Functions |-> Pending]

\* the forecasting engine: the forecasters are handed any processed table
\* and an empty output directory
Init ==
    /\ rawFile = File(PipelineRawTable)
    /\ processedFile \in {Absent} \cup {File(t) : t \in ProcessedTables}
    /\ EarlierOutputs(FALSE)
    /\ NothingStarted
    /\ IterationIdle /\ DagIdle /\ TrendIdle

\* the pipeline: any raw table, preprocessing, then the forecasters
InitPipeline ==
    /\ rawFile \in {Absent} \cup {File(t) : t \in RawTables}
    /\ \E stale \in BOOLEAN :
        /\ processedFile = IF stale THEN File(StaleProcessed) ELSE Absent
        /\ EarlierOutputs(stale)
    /\ NothingStarted
    /\ IterationIdle /\ DagIdle /\ TrendIdle

\* preprocess_data(): the whole call; the DAG runs it upstream of both
\* forecasters (t3 >> [t4, t5])
preprocess_data ==
    /\ pc["preprocess"] = "idle"
    /\ \A m \in Models : pc[m] = "idle"
    /\ IF ~exists(rawFile)
       THEN /\ pc' = [pc EXCEPT !["preprocess"] = "raised"]
            /\ ret' = [ret EXCEPT !["preprocess"] = Raise("FileNotFoundError")]
            /\ UNCHANGED processedFile
       ELSE /\ processedFile' = File(preprocess(rawFile.content))
            /\ pc' = [pc EXCEPT !["preprocess"] = "done"]
            /\ ret' = [ret EXCEPT !["preprocess"] = Return(preprocess(rawFile.content).rows)]
    /\ UNCHANGED <<rawFile, forecastFile, metricsFile, df, todo, forecasts,
                   metrics, fitted>>
    /\ UNCHANGED <<iteration_vars, dag_vars, trend_vars>>

\* the entry of a forecaster: the existence check and read_csv
Enter(m) ==
    /\ pc[m] = "idle"
    /\ IF ~exists(processedFile)
       THEN /\ pc' = [pc EXCEPT ![m] = "raised"]
            /\ ret' = [ret EXCEPT ![m] = Raise("FileNotFoundError")]
            /\ UNCHANGED <<df, todo>>
       ELSE /\ pc' = [pc EXCEPT ![m] = "loop"]
            /\ df' = [df EXCEPT ![m] = processedFile.content]
            /\ todo' = [todo EXCEPT ![m] = groupby_Brand(processedFile.content)]
            /\ UNCHANGED ret
    /\ UNCHANGED <<rawFile, processedFile, forecastFile, metricsFile, forecasts,
                   metrics, fitted>>
    /\ UNCHANGED <<iteration_vars, dag_vars, trend_vars>>

forecast_with_prophet_enter == Enter("prophet")

run_lstm_forecast_enter == Enter("lstm")

\* an uncaught exception leaves the loop and the function
Abort(m, e) ==
    /\ pc' = [pc EXCEPT ![m] = "raised"]
    /\ ret' = [ret EXCEPT ![m] = Raise(e)]
    /\ todo' = [todo EXCEPT ![m] = Tail(todo[m])]

\* "break" in place of "continue": the loop ends at the skipped brand
Break(m) ==
    /\ todo' = [todo EXCEPT ![m] = <<>>]
    /\ UNCHANGED <<pc, ret>>

\* "continue"
Continue(m) ==
    /\ todo' = [todo EXCEPT ![m] = Tail(todo[m])]
    /\ UNCHANGED <<pc, ret>>

\* one iteration of "for brand, brand_df in df.groupby('Brand')" of
\* forecast_with_prophet
forecast_with_prophet_brand ==
    /\ pc["prophet"] = "loop"
    /\ todo["prophet"] # <<>>
    /\ LET b == Head(todo["prophet"])
           t == df["prophet"]
           p == prophet_df(t, b)
           train == split_train(p)
           test == split_test(p)
           regs == regressors_to_use(train, used_regressors(t))
       IN  IF prophet_skips(p, prophet_cols(t))
           THEN Continue("prophet") /\ UNCHANGED <<forecasts, metrics, fitted>>
           ELSE IF fit_raises(train, regs)
           THEN Abort("prophet", "ValueError") /\ UNCHANGED <<forecasts, metrics, fitted>>
           ELSE \* model.add_regressor(reg) for each; model.fit(train[...])
                /\ fitted' = [fitted EXCEPT !["prophet"] =
                                Append(@, [Brand |-> b, regressors |-> regs,
                                           train |-> Column(train, "ds"),
                                           test |-> Column(test, "ds")])]
                /\ IF predict_raises(test, regs)
                   THEN Abort("prophet", "ValueError") /\ UNCHANGED <<forecasts, metrics>>
                   ELSE /\ metrics' = [metrics EXCEPT !["prophet"] = Append(@, [Brand |-> b])]
                        /\ forecasts' = [forecasts EXCEPT !["prophet"] =
                                            @ \o prophet_forecast(train, b)]
                        /\ Continue("prophet")
    /\ UNCHANGED <<rawFile, processedFile, forecastFile, metricsFile, df>>
    /\ UNCHANGED <<iteration_vars, dag_vars, trend_vars>>

\* one iteration of the loop of run_lstm_forecast
run_lstm_forecast_brand ==
    /\ pc["lstm"] = "loop"
    /\ todo["lstm"] # <<>>
    /\ LET b == Head(todo["lstm"])
           t == df["lstm"]
           rows == lstm_brand_df(t, b)
           n == Len(rows)
       IN  IF TooFewRows(n)
           THEN Continue("lstm") /\ UNCHANGED <<forecasts, metrics, fitted>>
           ELSE IF scaler_raises(rows, features(t))
           THEN Abort("lstm", "ValueError") /\ UNCHANGED <<forecasts, metrics, fitted>>
           ELSE IF TooFewSamples(Len(X(n)))
           THEN Continue("lstm") /\ UNCHANGED <<forecasts, metrics, fitted>>
           ELSE \* LSTMModel(input_dim=len(features)) trained for 80 epochs
                /\ fitted' = [fitted EXCEPT !["lstm"] =
                                Append(@, [Brand |-> b, regressors |-> features(t),
                                           train |-> train_samples(n),
                                           test |-> test_samples(n)])]
                /\ IF metrics_raise(rows, features(t))
                   THEN Abort("lstm", "ValueError") /\ UNCHANGED <<forecasts, metrics>>
                   ELSE /\ metrics' = [metrics EXCEPT !["lstm"] = Append(@, [Brand |-> b])]
                        /\ forecasts' = [forecasts EXCEPT !["lstm"] =
                                            @ \o lstm_forecast(rows, b)]
                        /\ Continue("lstm")
    /\ UNCHANGED <<rawFile, processedFile, forecastFile, metricsFile, df>>
    /\ UNCHANGED <<iteration_vars, dag_vars, trend_vars>>

\* the function without its final "return metrics"
prophet_return_nothing(results, ms) == None

\* what forecast_with_prophet returns after the loop
prophet_return(results, ms) == IF results = <<>> THEN None ELSE Return(ms)

\* what run_lstm_forecast returns after the loop
lstm_return(results, ms) == Return(ms)

\* the header of the forecast file; the model carries the Date and Brand of
\* each row, the predicted values are numerical output it does not compute
forecast_columns(m) ==
    IF m = "prophet"
    THEN {"Date", "Brand", "Predicted_Sales", "yhat_lower", "yhat_upper"}
    ELSE {"Date", "Brand", "Predicted_Sales"}

metrics_columns == {"Brand", "RMSE", "MAPE (%)"}

\* both modules given one FORECAST_FILE and one METRICS_FILE
Finish_shared_files(m, r) ==
    /\ pc[m] = "loop"
    /\ todo[m] = <<>>
    /\ pc' = [pc EXCEPT ![m] = "done"]
    /\ ret' = [ret EXCEPT ![m] = r]
    /\ IF forecasts[m] # <<>>
       THEN /\ forecastFile' = [forecastFile EXCEPT !["prophet"] =
                                File([cols |-> forecast_columns(m), rows |-> forecasts[m]])]
            /\ metricsFile' = [metricsFile EXCEPT !["prophet"] =
                                File([cols |-> metrics_columns, rows |-> metrics[m]])]
       ELSE UNCHANGED <<forecastFile, metricsFile>>
    /\ UNCHANGED <<rawFile, processedFile, df, todo, forecasts, metrics, fitted>>
    /\ UNCHANGED <<iteration_vars, dag_vars, trend_vars>>

\* the files are written only when some brand produced a forecast
Finish(m, r) ==
    /\ pc[m] = "loop"
    /\ todo[m] = <<>>
    /\ pc' = [pc EXCEPT ![m] = "done"]
    /\ ret' = [ret EXCEPT ![m] = r]
    /\ IF forecasts[m] # <<>>
       THEN /\ forecastFile' = [forecastFile EXCEPT ![m] =
                                File([cols |-> forecast_columns(m), rows |-> forecasts[m]])]
            /\ metricsFile' = [metricsFile EXCEPT ![m] =
                                File([cols |-> metrics_columns, rows |-> metrics[m]])]
       ELSE UNCHANGED <<forecastFile, metricsFile>>
    /\ UNCHANGED <<rawFile, processedFile, df, todo, forecasts, metrics, fitted>>
    /\ UNCHANGED <<iteration_vars, dag_vars, trend_vars>>

\* the end of the function without its test for an empty result
forecast_with_prophet_finish_unguarded ==
    /\ pc["prophet"] = "loop"
    /\ todo["prophet"] = <<>>
    /\ pc' = [pc EXCEPT !["prophet"] = "done"]
    /\ ret' = [ret EXCEPT !["prophet"] =
                 prophet_return(forecasts["prophet"], metrics["prophet"])]
    /\ forecastFile' = [forecastFile EXCEPT !["prophet"] =
                         File([cols |-> forecast_columns("prophet"),
                               rows |-> forecasts["prophet"]])]
    /\ metricsFile' = [metricsFile EXCEPT !["prophet"] =
                        File([cols |-> metrics_columns, rows |-> metrics["prophet"]])]
    /\ UNCHANGED <<rawFile, processedFile, df, todo, forecasts, metrics, fitted>>
    /\ UNCHANGED <<iteration_vars, dag_vars, trend_vars>>

forecast_with_prophet_finish ==
    Finish("prophet", prophet_return(forecasts["prophet"], metrics["prophet"]))

run_lstm_forecast_finish ==
    Finish("lstm", lstm_return(forecasts["lstm"], metrics["lstm"]))

Next ==
    \/ forecast_with_prophet_enter
    \/ forecast_with_prophet_brand
    \/ forecast_with_prophet_finish
    \/ run_lstm_forecast_enter
    \/ run_lstm_forecast_brand
    \/ run_lstm_forecast_finish

Spec == Init /\ [][Next]_vars

NextPipeline == preprocess_data \/ Next

SpecPipeline == InitPipeline /\ [][NextPipeline]_vars

(***************************************************************************)
(* Properties.                                                             *)
(***************************************************************************)
BrandsOf(t) == SeqToSet(groupby_Brand(t))

\* the brands whose loop iteration has run
Reached(m) == IF pc[m] = "idle" THEN {} ELSE BrandsOf(df[m]) \ SeqToSet(todo[m])

Terminated(m) == pc[m] \in {"done", "raised"}

RowsFor(rows, b) == SelectSeq(rows, LAMBDA r : r.Brand = b)

ObservedDates(t, b) == {t.rows[i].Date : i \in {j \in DOMAIN t.rows : t.rows[j].Brand = b}}

LastObserved(t, b) == MaxOf(ObservedDates(t, b))

NumDates(t, b) == Cardinality(ObservedDates(t, b))

\* the step taken is the loop iteration of model m on brand b
IterationOn(m, b) ==
    /\ pc[m] = "loop"
    /\ todo[m] # <<>>
    /\ Head(todo[m]) = b
    /\ <<pc[m], todo[m], forecasts[m], metrics[m], fitted[m]>>' #
       <<pc[m], todo[m], forecasts[m], metrics[m], fitted[m]>>

\* the iteration skipped its brand and the loop goes on with the next one
SkippedAndContinued(m) ==
    /\ forecasts'[m] = forecasts[m]
    /\ metrics'[m] = metrics[m]
    /\ fitted'[m] = fitted[m]
    /\ pc'[m] = "loop"
    /\ todo'[m] = Tail(todo[m])

\* C1: every brand the Seasonal Forecaster does not skip has exactly 30
\* forecast rows, each dated strictly after the brand's last observed date.
C1_Claim ==
    \A b \in Reached("prophet") :
        LET rows == RowsFor(forecasts["prophet"], b)
        IN  rows # <<>> =>
                /\ Len(rows) = HORIZON
                /\ \A i \in DOMAIN rows : rows[i].Date > LastObserved(df["prophet"], b)

\* C2: when the Sequence Forecaster has terminated, every brand with at
\* least 8 per-date rows and at least 20 window samples has exactly 30
\* forecast rows, dated the 30 consecutive days after its last observed date.
C2_Claim ==
    Terminated("lstm") =>
        \A b \in BrandsOf(df["lstm"]) :
            LET n == NumDates(df["lstm"], b)
                rows == RowsFor(forecasts["lstm"], b)
            IN  (n >= 8 /\ n - 7 >= 20) =>
                    /\ Len(rows) = 30
                    /\ \A i \in DOMAIN rows :
                         rows[i].Date = LastObserved(df["lstm"], b) + i

\* a brand the forecaster can process on its own: neither skipped nor raising
Healthy(m, b) ==
    IF m = "prophet"
    THEN LET p == prophet_df(df[m], b)
             regs == regressors_to_use(split_train(p), used_regressors(df[m]))
         IN  ~prophet_skips(p, prophet_cols(df[m])) /\ ~regressor_has_nan(p, regs)
    ELSE LET rows == lstm_brand_df(df[m], b)
         IN  /\ Len(rows) >= 27
             /\ ~scaler_raises(rows, features(df[m]))
             /\ ~metrics_raise(rows, features(df[m]))

\* C3: brand isolation: a forecaster that has read its table never aborts,
\* and once it has terminated every healthy brand of the table has its
\* forecast rows and its metrics row in the written files.
C3_Claim ==
    \A m \in Models :
        (Terminated(m) /\ ret[m] # Raise("FileNotFoundError")) =>
            /\ pc[m] = "done"
            /\ \A b \in BrandsOf(df[m]) :
                 Healthy(m, b) =>
                    /\ RowsFor(forecastFile[m].content.rows, b) # <<>>
                    /\ RowsFor(metricsFile[m].content.rows, b) # <<>>

\* C4 (as claimed): a brand with 5 rows of history has no forecast row and
\* no metrics row in either forecaster.
C4_Claim ==
    \A m \in Models : \A b \in Reached(m) :
        NumDates(df[m], b) = 5 =>
            /\ RowsFor(forecasts[m], b) = <<>>
            /\ RowsFor(metrics[m], b) = <<>>

\* C4 (amended): the Sequence Forecaster skips a brand with 5 rows of
\* history, the Seasonal Forecaster skips a brand with fewer than 3 rows;
\* the skipped brand gets no forecast row, no metrics row and no model, and
\* the loop goes on with the next brand.
C4_Amended ==
    [][\A b \in SeqToSet(Brands) :
          /\ (IterationOn("lstm", b) /\ NumDates(df["lstm"], b) = 5)
                => SkippedAndContinued("lstm")
          /\ (IterationOn("prophet", b) /\ NumDates(df["prophet"], b) < 3)
                => SkippedAndContinued("prophet")]_vars

\* a 5-row brand was skipped by the Sequence Forecaster, which went on to
\* forecast the next brand; the Seasonal Forecaster did forecast the 5-row
\* brand
C4_Witness ==
    /\ pc["lstm"] = "done"
    /\ pc["prophet"] = "done"
    /\ \E a \in Reached("lstm") : \E b \in Reached("lstm") :
        /\ NumDates(df["lstm"], a) = 5
        /\ RowsFor(forecasts["lstm"], a) = <<>>
        /\ RowsFor(forecasts["lstm"], b) # <<>>
        /\ RowsFor(forecasts["prophet"], a) # <<>>
        /\ IndexOf(Brands, a) < IndexOf(Brands, b)
\* C5: every regressor of a fitted seasonal model has more than one
\* distinct value in the training split of its brand; a column that is
\* constant there is not among the regressors.
C5_AdmittedRegressorsVary ==
    \A k \in DOMAIN fitted["prophet"] :
        LET f == fitted["prophet"][k]
            train == prophet_train(df["prophet"], f.Brand)
        IN  \A c \in prophet_cols(df["prophet"]) \ {"ds", "y"} :
                LET values == {train[i][c] : i \in DOMAIN train} \ {NaN}
                IN  /\ (c \in SeqToSet(f.regressors)) => Cardinality(values) > 1
                    /\ Cardinality(values) <= 1 => c \notin SeqToSet(f.regressors)

\* a model was fitted for a brand one of whose covariates is constant in the
\* training split but not in the whole history; it was left out, and
\* another regressor was admitted
C5_Witness ==
    \E k \in DOMAIN fitted["prophet"] :
        LET f == fitted["prophet"][k]
            p == prophet_df(df["prophet"], f.Brand)
        IN  /\ nunique(Column(split_train(p), "Competitor_Price")) = 1
            /\ nunique(Column(p, "Competitor_Price")) > 1
            /\ "Competitor_Price" \notin SeqToSet(f.regressors)
            /\ f.regressors # <<>>

BrandSet(rows) == {rows[i].Brand : i \in DOMAIN rows}

EmptyResult(r) == r.kind = "none" \/ (r.kind = "value" /\ r.value = <<>>)
ProducedResult(r) == r.kind = "value" /\ r.value # <<>>
FatalAbort(r) == r.kind = "raise"

\* C7: a finished forecaster returns an empty result exactly when no brand
\* produced a forecast, a non-empty list of metrics when some brand did, and
\* neither of them is the exception of an aborted run.
C7_EmptyResultDistinct ==
    \A m \in Models :
        /\ (pc[m] = "done" /\ forecasts[m] = <<>>) =>
                EmptyResult(ret[m]) /\ ~ProducedResult(ret[m]) /\ ~FatalAbort(ret[m])
        /\ (pc[m] = "done" /\ forecasts[m] # <<>>) =>
                ProducedResult(ret[m]) /\ ~EmptyResult(ret[m]) /\ ~FatalAbort(ret[m])
        /\ pc[m] = "raised" =>
                FatalAbort(ret[m]) /\ ~EmptyResult(ret[m]) /\ ~ProducedResult(ret[m])

\* one forecaster finished without any forecast, the other with forecasts
C7_Witness ==
    /\ pc["prophet"] = "done"
    /\ pc["lstm"] = "done"
    /\ forecasts["lstm"] = <<>>
    /\ forecasts["prophet"] # <<>>
    /\ ret["lstm"] = Return(<<>>)
    /\ ret["prophet"] = Return(metrics["prophet"])

\* C9: an iteration of the Seasonal Forecaster on a brand whose training
\* split holds a missing value adds no forecast row, no metrics row and no
\* fitted model, and the loop goes on with the next brand.
C9_NullTrainSkipped ==
    [][\A b \in SeqToSet(Brands) :
          (/\ IterationOn("prophet", b)
           /\ LET train == prophet_train(df["prophet"], b)
              IN  \E i \in DOMAIN train :
                    \E c \in prophet_cols(df["prophet"]) \ {"ds"} : train[i][c] = NaN)
          => SkippedAndContinued("prophet")]_vars

\* the first brand had a missing value in its training split and was
\* skipped; the forecaster went on and forecast the second brand
C9_Witness ==
    /\ pc["prophet"] = "done"
    /\ forecasts["prophet"] # <<>>
    /\ \E a \in Reached("prophet") :
        /\ RowsFor(forecasts["prophet"], a) = <<>>
        /\ Len(prophet_df(df["prophet"], a)) >= 3
        /\ LET train == prophet_train(df["prophet"], a)
           IN  \E i \in DOMAIN train : train[i].Promotion = NaN
        /\ \E b \in Reached("prophet") :
                /\ IndexOf(Brands, a) < IndexOf(Brands, b)
                /\ RowsFor(forecasts["prophet"], b) # <<>>
FunctionInput(f) == IF f = "preprocess" THEN rawFile ELSE processedFile

\* C8: a function entered while its input file is absent raises
\* FileNotFoundError there: it reads no table, processes no brand and leaves
\* the processed, forecast and metrics files as they were; it stays aborted.
C8_MissingInputFatal ==
    [][\A f \in Functions :
          /\ (pc[f] = "idle" /\ pc'[f] # "idle" /\ ~FunctionInput(f).exists) =>
                /\ pc'[f] = "raised"
                /\ ret'[f] = Raise("FileNotFoundError")
                /\ UNCHANGED <<processedFile, forecastFile, metricsFile>>
                /\ f \in Models =>
                     /\ df'[f] = NoTable
                     /\ todo'[f] = <<>>
                     /\ forecasts'[f] = <<>>
                     /\ metrics'[f] = <<>>
                     /\ fitted'[f] = <<>>
          /\ (pc[f] = "raised" /\ ret[f] = Raise("FileNotFoundError")) =>
                /\ pc'[f] = pc[f]
                /\ ret'[f] = ret[f]
                /\ f \in Models =>
                     <<df[f], todo[f], forecasts[f], metrics[f], fitted[f]>>' =
                     <<df[f], todo[f], forecasts[f], metrics[f], fitted[f]>>]_vars

\* the three functions were called with their inputs absent; all three
\* raised and no output file exists
C8_Witness ==
    /\ \A f \in Functions : pc[f] = "raised" /\ ret[f] = Raise("FileNotFoundError")
    /\ ~rawFile.exists
    /\ ~processedFile.exists
    /\ \A m \in Models : ~forecastFile[m].exists /\ ~metricsFile[m].exists

RowKey(r) == <<r.Category, r.Brand, r.Date>>

C11_Claim ==
    pc["preprocess"] = "done" =>
        LET e == engineered(rawFile.content)
        IN  \A i \in DOMAIN e :
                ~isnull(e[i].Sales_Lag_1) /\ ~isnull(e[i].Sales_MA_3)

\* the numeric columns the forecasters read from the processed table
consumed_covariates ==
    {"Total_Sales", "Online_Popularity"}
    \cup SeqToSet(extra_regressors) \cup SeqToSet(lstm_extra_regressors)

\* C12: in preprocess_data every missing cell of a numeric column the
\* forecasters consume (Promotion included) is replaced before the
\* aggregation by the global median of its column, a missing Is_Holiday by
\* 0, and no such column has a missing cell in the aggregated output.  The
\* columns are those that hold some value in the raw table (the median
\* exists), and the output is that of a table of two rows or more (the
\* standard deviation of the normalisation exists).
C12_Claim ==
    pc["preprocess"] = "done" =>
        LET raw == rawFile.content.rows
            filled == handle_missing(rawFile.content)
            out == processedFile.content.rows
        IN  /\ \A i \in DOMAIN raw :
                 isnull(raw[i].Is_Holiday) => filled[i].Is_Holiday = Num(0)
            /\ \A c \in consumed_covariates :
                 LET med == median(Column(raw, c))
                 IN  ~isnull(med) =>
                        /\ \A i \in DOMAIN raw :
                             filled[i][c] = IF isnull(raw[i][c]) THEN med
                                            ELSE raw[i][c]
                        /\ Len(raw) >= 2 =>
                             \A k \in DOMAIN out : ~isnull(out[k][c])

(***************************************************************************)
(* The two forecasters as functions of the processed table: what a call    *)
(* that runs alone, from read_csv to the end of its loop, collects.        *)
(***************************************************************************)
Collected(fs, ms, raised) == [forecasts |-> fs, metrics |-> ms, raised |-> raised]

RECURSIVE prophet_loop(_, _, _)
prophet_loop(t, brands, acc) ==
    IF brands = <<>> THEN acc
    ELSE LET b == Head(brands)
             p == prophet_df(t, b)
             train == split_train(p)
             regs == regressors_to_use(train, used_regressors(t))
         IN  IF prophet_skips(p, prophet_cols(t))
             THEN prophet_loop(t, Tail(brands), acc)
             ELSE IF fit_raises(train, regs) \/ predict_raises(split_test(p), regs)
             THEN [acc EXCEPT !.raised = TRUE]
             ELSE prophet_loop(t, Tail(brands),
                               Collected(acc.forecasts \o prophet_forecast(train, b),
                                         Append(acc.metrics, [Brand |-> b]), FALSE))

forecast_with_prophet(t) == prophet_loop(t, groupby_Brand(t), Collected(<<>>, <<>>, FALSE))

RECURSIVE lstm_loop(_, _, _)
lstm_loop(t, brands, acc) ==
    IF brands = <<>> THEN acc
    ELSE LET b == Head(brands)
             rows == lstm_brand_df(t, b)
             n == Len(rows)
         IN  IF TooFewRows(n)
             THEN lstm_loop(t, Tail(brands), acc)
             ELSE IF scaler_raises(rows, features(t))
             THEN [acc EXCEPT !.raised = TRUE]
             ELSE IF TooFewSamples(Len(X(n)))
             THEN lstm_loop(t, Tail(brands), acc)
             ELSE IF metrics_raise(rows, features(t))
             THEN [acc EXCEPT !.raised = TRUE]
             ELSE lstm_loop(t, Tail(brands),
                            Collected(acc.forecasts \o lstm_forecast(rows, b),
                                      Append(acc.metrics, [Brand |-> b]), FALSE))

run_lstm_forecast(t) == lstm_loop(t, groupby_Brand(t), Collected(<<>>, <<>>, FALSE))

RunAlone(m, t) == IF m = "prophet" THEN forecast_with_prophet(t) ELSE run_lstm_forecast(t)

\* the files a call that runs alone over table t leaves in an output
\* directory that was empty
FilesOfRunAlone(m, t) ==
    LET c == RunAlone(m, t)
    IN  IF c.raised \/ c.forecasts = <<>>
        THEN [forecast |-> Absent, metrics |-> Absent]
        ELSE [forecast |-> File([cols |-> forecast_columns(m), rows |-> c.forecasts]),
              metrics |-> File([cols |-> metrics_columns, rows |-> c.metrics])]

Other(m) == CHOOSE o \in Models : o # m

\* the step changes something that belongs to model m
StepOf(m) ==
    <<pc[m], df[m], todo[m], forecasts[m], metrics[m], fitted[m], ret[m],
      forecastFile[m], metricsFile[m]>>' #
    <<pc[m], df[m], todo[m], forecasts[m], metrics[m], fitted[m], ret[m],
      forecastFile[m], metricsFile[m]>>

\* C13: the two forecasters share no state.  A step of one forecaster
\* changes neither the processed table nor any file or variable of the
\* other, and under every interleaving of their steps each forecaster, once
\* terminated, has left exactly the forecast and metrics files that a call
\* running alone over the processed table leaves.
C13_NoSharedState ==
    /\ [](\A m \in Models :
            (Terminated(m) /\ processedFile.exists) =>
                LET f == FilesOfRunAlone(m, processedFile.content)
                IN  /\ forecastFile[m] = f.forecast
                    /\ metricsFile[m] = f.metrics)
    /\ [][\A m \in Models :
            StepOf(m) => /\ ~StepOf(Other(m))
                         /\ processedFile' = processedFile
                         /\ rawFile' = rawFile]_vars

\* the Sequence Forecaster ran from entry to its written files while the
\* Seasonal Forecaster was inside its loop, one brand forecast and one to go
C13_Witness ==
    /\ pc["prophet"] = "loop"
    /\ forecasts["prophet"] # <<>>
    /\ todo["prophet"] # <<>>
    /\ pc["lstm"] = "done"
    /\ forecastFile["lstm"] = FilesOfRunAlone("lstm", processedFile.content).forecast
    /\ forecastFile["lstm"].exists
    /\ ~forecastFile["prophet"].exists

\* the processed table with the rows of brand b only
OnlyBrand(t, b) ==
    [cols |-> t.cols, rows |-> SelectSeq(t.rows, LAMBDA r : r.Brand = b)]

\* C14: brands are mutually independent inside each forecaster: when a
\* forecaster has terminated, each brand of its table that a run over the
\* brand's rows alone completes has the forecast rows and the metrics row
\* of that run, whichever other brands the table holds.
C14_Claim ==
    \A m \in Models :
        (Terminated(m) /\ ret[m] # Raise("FileNotFoundError")) =>
            \A b \in BrandsOf(df[m]) :
                LET alone == RunAlone(m, OnlyBrand(df[m], b))
                IN  ~alone.raised =>
                        /\ RowsFor(forecasts[m], b) = alone.forecasts
                        /\ RowsFor(metrics[m], b) = alone.metrics

(***************************************************************************)
(* One loop iteration of run_lstm_forecast, statement by statement.  The   *)
(* rows of `scaled` are tuples over `features`, the target first.          *)
(***************************************************************************)
DivQ(a, b) == Q(a[1] * b[2], a[2] * b[1])

MinCell(v) == CHOOSE c \in SeqToSet(v) : \A d \in SeqToSet(v) : LeQ(c, d)
MaxCell(v) == CHOOSE c \in SeqToSet(v) : \A d \in SeqToSet(v) : LeQ(d, c)

\* MinMaxScaler.fit: data_min_ and data_range_ of a column, NaN cells left
\* out; a range of zero is replaced by 1
data_min(col) == MinCell(SelectSeq(col, LAMBDA c : ~isnull(c)))

data_range(col) ==
    LET v == SelectSeq(col, LAMBDA c : ~isnull(c))
        r == SubQ(MaxCell(v), MinCell(v))
    IN  IF r = Num(0) THEN Num(1) ELSE r

\* MinMaxScaler.transform of one cell of a column
transform(col, x) ==
    IF isnull(x) THEN NaN ELSE DivQ(SubQ(x, data_min(col)), data_range(col))

\* scaler.fit_transform(brand_df[features].values)
fit_transform(rows, feats) ==
    [i \in DOMAIN rows |->
        [k \in DOMAIN feats |-> transform(Column(rows, feats[k]), rows[i][feats[k]])]]

\* scaled[i:i+seq_length], i counted from 0
window(s, i) == SubSeq(s, i + 1, i + seq_length)

\* the label taken from the last row of the window
label_inside_window(s, i) == s[i + seq_length][1]

\* scaled[i + seq_length, 0]
label(s, i) == s[i + seq_length + 1][1]

\* the functions a trained network may compute; whatever it computes, a NaN
\* in its input or in its weights gives a NaN output
Networks == {"persistence", "first_of_window", "exogenous"}

has_nan(w) == \E j \in DOMAIN w : \E k \in DOMAIN w[j] : isnull(w[j][k])

\* model(window)
forward(net, w) ==
    IF net = "nan" \/ has_nan(w) THEN NaN
    ELSE IF net = "persistence" THEN w[Len(w)][1]
    ELSE IF net = "first_of_window" THEN w[1][1]
    ELSE w[Len(w)][2]

\* every column of the synthetic row set to the prediction
next_step_all_predicted(pred, last_features) ==
    [k \in DOMAIN last_features |-> pred]

\* np.array([pred] + list(last_features[1:]))
next_step(pred, last_features) == <<pred>> \o Tail(last_features)

\* scaled[-seq_length:]
last_rows(s) == SubSeq(s, Len(s) - seq_length + 1, Len(s))

\* the brand and the feature list of the iteration followed
iteration_brand == Brands[1]

iteration_features == features([cols |-> AllCols, rows |-> <<>>])

\* the per-date frames the iteration may be entered with
BrandFrames ==
    {lstm_brand_df(ProcessedTable(p, [n |-> 0, kind |-> "none"]), iteration_brand) :
        p \in Profiles \ {[n |-> 0, kind |-> "none"]}}

EngineIdle ==
    /\ rawFile = Absent
    /\ processedFile = Absent
    /\ EarlierOutputs(FALSE)
    /\ NothingStarted

InitIteration ==
    /\ EngineIdle /\ DagIdle /\ TrendIdle
    /\ at = "begin"
    /\ brand_df \in BrandFrames
    /\ scaled = <<>>
    /\ samples = [X |-> <<>>, y |-> <<>>]
    /\ model = NoModel
    /\ last_seq = <<>>
    /\ future_scaled = <<>>

\* what no statement of the iteration touches
OutsideIteration ==
    <<rawFile, processedFile, forecastFile, metricsFile, pc, df, todo, fitted, ret,
      dag_vars, trend_vars>>

\* lines 72-79: the row guard, then the scaler
lstm_scale ==
    /\ at = "begin"
    /\ IF TooFewRows(Len(brand_df))
       THEN at' = "skipped" /\ UNCHANGED scaled
       ELSE IF scaler_raises(brand_df, iteration_features)
       THEN at' = "raised" /\ UNCHANGED scaled
       ELSE /\ at' = "windows"
            /\ scaled' = fit_transform(brand_df, iteration_features)
    /\ UNCHANGED <<brand_df, samples, model, last_seq, future_scaled,
                   forecasts, metrics, OutsideIteration>>

\* lines 82-84: one pass of "for i in range(len(scaled) - seq_length)"
lstm_append_sample ==
    /\ at = "windows"
    /\ Len(samples.X) < Len(scaled) - seq_length
    /\ LET i == Len(samples.X)
       IN  samples' = [X |-> Append(samples.X, window(scaled, i)),
                       y |-> Append(samples.y, label(scaled, i))]
    /\ UNCHANGED <<at, brand_df, scaled, model, last_seq, future_scaled,
                   forecasts, metrics, OutsideIteration>>

\* lines 86-90: the sample guard
lstm_check_samples ==
    /\ at = "windows"
    /\ Len(samples.X) = Len(scaled) - seq_length
    /\ at' = IF TooFewSamples(Len(samples.X)) THEN "skipped" ELSE "train"
    /\ UNCHANGED <<brand_df, scaled, samples, model, last_seq, future_scaled,
                   forecasts, metrics, OutsideIteration>>

\* lines 92-112: the split and the 80 epochs on (X_train, y_train); NaN in
\* the training data leaves NaN weights
lstm_train ==
    /\ at = "train"
    /\ \E net \in Networks :
        LET k == Len(samples.X)
            X_train == SubSeq(samples.X, 1, train_size(k))
            y_train == SubSeq(samples.y, 1, train_size(k))
            poisoned == \/ \E i \in DOMAIN X_train : has_nan(X_train[i])
                        \/ \E i \in DOMAIN y_train : isnull(y_train[i])
        IN  model' = [net |-> IF poisoned THEN "nan" ELSE net,
                      X_train |-> X_train,
                      y_train |-> y_train,
                      X_test |-> SubSeq(samples.X, train_size(k) + 1, k),
                      y_test |-> SubSeq(samples.y, train_size(k) + 1, k)]
    /\ at' = "evaluate"
    /\ UNCHANGED <<brand_df, scaled, samples, last_seq, future_scaled,
                   forecasts, metrics, OutsideIteration>>

\* lines 114-125: the holdout predictions and the metrics row, then the
\* seed of the rollout; mean_squared_error raises on NaN
lstm_evaluate ==
    /\ at = "evaluate"
    /\ LET preds == [i \in DOMAIN model.X_test |-> forward(model.net, model.X_test[i])]
       IN  IF \/ \E i \in DOMAIN preds : isnull(preds[i])
              \/ \E i \in DOMAIN model.y_test : isnull(model.y_test[i])
           THEN /\ at' = "raised"
                /\ UNCHANGED <<metrics, last_seq>>
           ELSE /\ at' = "rollout"
                /\ metrics' = [metrics EXCEPT !["lstm"] =
                                 Append(@, [Brand |-> iteration_brand])]
                /\ last_seq' = last_rows(scaled)
    /\ UNCHANGED <<brand_df, scaled, samples, model, future_scaled,
                   forecasts, OutsideIteration>>

\* lines 126-132: one pass of "for _ in range(30)"
lstm_rollout_step ==
    /\ at = "rollout"
    /\ Len(future_scaled) < HORIZON
    /\ LET pred == forward(model.net, last_seq)
           last_features == scaled[Len(scaled)]
           row == next_step(pred, last_features)
       IN  /\ future_scaled' = Append(future_scaled, row)
           /\ scaled' = Append(scaled, row)
           /\ last_seq' = last_rows(Append(scaled, row))
    /\ UNCHANGED <<at, brand_df, samples, model, forecasts, metrics,
                   OutsideIteration>>

\* lines 134-148: the forecast frame of the brand
lstm_emit ==
    /\ at = "rollout"
    /\ Len(future_scaled) = HORIZON
    /\ at' = "done"
    /\ forecasts' = [forecasts EXCEPT !["lstm"] =
                        @ \o lstm_forecast(brand_df, iteration_brand)]
    /\ UNCHANGED <<brand_df, scaled, samples, model, last_seq, future_scaled,
                   metrics, OutsideIteration>>

NextIteration ==
    \/ lstm_scale
    \/ lstm_append_sample
    \/ lstm_check_samples
    \/ lstm_train
    \/ lstm_evaluate
    \/ lstm_rollout_step
    \/ lstm_emit

SpecIteration == InitIteration /\ [][NextIteration]_vars

\* C15: during the 30-step rollout the running series is the observed rows
\* followed by the synthetic rows; each synthetic row has as target the
\* model's prediction on the 7 rows before it and in every other column the
\* scaled value of the brand's last observed row, and the next input window
\* is the last 7 rows of the running series.
C15_RolloutFreezesFeatures ==
    at \in {"rollout", "done"} =>
        LET n == Len(brand_df)
        IN  /\ Len(future_scaled) <= HORIZON
            /\ Len(scaled) = n + Len(future_scaled)
            /\ last_seq = SubSeq(scaled, Len(scaled) - 6, Len(scaled))
            /\ \A k \in 1..Len(future_scaled) :
                 /\ scaled[n + k] = future_scaled[k]
                 /\ scaled[n + k][1] =
                        forward(model.net, SubSeq(scaled, n + k - 7, n + k - 1))
                 /\ \A c \in 2..Len(iteration_features) :
                        scaled[n + k][c] =
                            transform(Column(brand_df, iteration_features[c]),
                                      brand_df[n][iteration_features[c]])

\* a rollout of 30 steps is complete; its predictions are not all equal, and
\* the last observed row differs from the row before it in a frozen column
C15_Witness ==
    /\ at = "done"
    /\ Len(future_scaled) = HORIZON
    /\ \E k \in 1..HORIZON : future_scaled[k][1] # future_scaled[1][1]
    /\ LET n == Len(brand_df)
       IN  /\ scaled[n][2] # scaled[n - 1][2]
           /\ future_scaled[HORIZON][2] = scaled[n][2]

\* C17: a brand with n >= 8 per-date rows, in date order, gets exactly
\* n - 7 samples; counted from 0, the input of sample i is the scaled rows
\* i .. i+6 and its label the scaled target of row i+7.
C17_SlidingWindows ==
    scaled # <<>> =>
        LET n == Len(brand_df)
            s == fit_transform(brand_df, iteration_features)
        IN  /\ n >= 8
            /\ \A r \in 1..(n - 1) : brand_df[r].Date < brand_df[r + 1].Date
            /\ SubSeq(scaled, 1, n) = s
            /\ Len(samples.X) = Len(samples.y)
            /\ Len(samples.X) <= n - 7
            /\ at # "windows" => Len(samples.X) = n - 7
            /\ \A i \in 0..(Len(samples.X) - 1) :
                 /\ samples.X[i + 1] = [j \in 1..7 |-> s[i + j]]
                 /\ samples.y[i + 1] = s[i + 8][1]

\* the window loop of a brand with 27 rows or more is over: n - 7 samples,
\* the first two with different labels
C17_Witness ==
    /\ at = "train"
    /\ Len(samples.X) = Len(brand_df) - 7
    /\ Len(samples.X) >= MIN_SAMPLES
    /\ samples.y[1] # samples.y[2]
    /\ samples.X[1] # samples.X[2]

\* floor(0.8 * n)
Floor80(n) == CHOOSE k \in 0..n : 10 * k <= 8 * n /\ 8 * n < 10 * (k + 1)

\* the usable elements of a fitted brand, in the order the forecaster holds
\* them: the dates of the cleaned frame, or the windows of the samples
Elements(m, b) ==
    IF m = "prophet" THEN Column(prophet_df(df[m], b), "ds")
    ELSE X(Len(lstm_brand_df(df[m], b)))

\* element e comes before element f in time: an earlier date, or a window
\* that starts and ends earlier
Precedes(m, e, f) ==
    IF m = "prophet" THEN e < f ELSE e[1] < f[1] /\ e[seq_length] < f[seq_length]

\* C16: in both forecasters the split of a fitted brand is chronological
\* and unshuffled: the elements are in time order, the model was fitted on
\* exactly the earliest floor(0.8 * n) of them and evaluated on exactly the
\* remaining latest ones, every training element precedes every holdout
\* element, and no holdout element was handed to the fit.
C16_ChronologicalSplit ==
    \A m \in Models : \A k \in DOMAIN fitted[m] :
        LET f == fitted[m][k]
            all == Elements(m, f.Brand)
            n == Len(all)
        IN  /\ \A i \in 1..(n - 1) : Precedes(m, all[i], all[i + 1])
            /\ Len(f.train) = Floor80(n)
            /\ f.train = SubSeq(all, 1, Floor80(n))
            /\ f.test = SubSeq(all, Floor80(n) + 1, n)
            /\ \A i \in DOMAIN f.train : \A j \in DOMAIN f.test :
                    Precedes(m, f.train[i], f.test[j])
            /\ SeqToSet(f.train) \cap SeqToSet(f.test) = {}

\* both forecasters fitted a model for the same brand, each with several
\* training and several holdout elements, the 0.8 * n of the seasonal one
\* not a whole number
C16_Witness ==
    \E i \in DOMAIN fitted["prophet"] : \E j \in DOMAIN fitted["lstm"] :
        LET f == fitted["prophet"][i]
            g == fitted["lstm"][j]
        IN  /\ f.Brand = g.Brand
            /\ Len(f.train) > 1 /\ Len(f.test) > 1
            /\ Len(g.train) > 1 /\ Len(g.test) > 1
            /\ (8 * (Len(f.train) + Len(f.test))) % 10 # 0

\* C20: once the Sequence Forecaster has terminated, a brand of its table
\* has forecast rows, and a metrics row, exactly when it has at least 27
\* distinct dates; a brand that passes the sample guard passes the row
\* guard, and a brand with 8 to 26 dates passes the row guard and is skipped
\* at the sample guard: the loop went past it, leaving no forecast row and
\* no metrics row.
C20_Claim ==
    (Terminated("lstm") /\ ret["lstm"] # Raise("FileNotFoundError")) =>
        \A b \in BrandsOf(df["lstm"]) :
            LET n == NumDates(df["lstm"], b)
            IN  /\ RowsFor(forecasts["lstm"], b) # <<>> <=> n >= 27
                /\ RowsFor(metrics["lstm"], b) # <<>> <=> n >= 27
                /\ ~TooFewSamples(n - seq_length) => ~TooFewRows(n)
                /\ (n >= 8 /\ n <= 26) =>
                     /\ ~TooFewRows(n)
                     /\ TooFewSamples(n - seq_length)
                     /\ RowsFor(forecasts["lstm"], b) = <<>>
                     /\ RowsFor(metrics["lstm"], b) = <<>>
                     /\ b \in Reached("lstm") =>
                          \/ pc["lstm"] = "done"
                          \/ \E c \in Reached("lstm") :
                                IndexOf(Brands, b) < IndexOf(Brands, c)

(***************************************************************************)
(* One run of the DAG brand_forecasting_pipeline under the scheduler: the  *)
(* default trigger rule all_success, and retries = 1 from default_args.    *)
(***************************************************************************)
retries == 1

\* visualizations wired behind the Seasonal Forecaster only
Upstream_of_one_forecaster(t) ==
    IF t = "collect_trends" THEN {"generate_historical_data"}
    ELSE IF t = "preprocess_data" THEN {"collect_trends"}
    ELSE IF t \in {"forecast_prophet", "forecast_lstm"} THEN {"preprocess_data"}
    ELSE IF t = "generate_visualizations" THEN {"forecast_prophet"}
    ELSE IF t = "notify_success" THEN {"generate_visualizations"}
    ELSE {}

\* t0 >> t2 >> t3 >> [t4, t5] >> t6 >> t7: the direct upstream tasks
Upstream(t) ==
    IF t = "collect_trends" THEN {"generate_historical_data"}
    ELSE IF t = "preprocess_data" THEN {"collect_trends"}
    ELSE IF t \in {"forecast_prophet", "forecast_lstm"} THEN {"preprocess_data"}
    ELSE IF t = "generate_visualizations" THEN {"forecast_prophet", "forecast_lstm"}
    ELSE IF t = "notify_success" THEN {"generate_visualizations"}
    ELSE {}

\* the tasks created with on_failure_callback=task_notify_failure
HasFailureCallback(t) == t # "notify_success"

\* the texts of the messages
DagCompleted == "DAG completed successfully! Forecast report generated."
DagFailed == "DAG Failed! Check Airflow logs."
PipelineCompleted == "Forecast pipeline completed! Sending report"

InitDag ==
    /\ EngineIdle /\ IterationIdle /\ TrendIdle
    /\ DagIdle

\* the scheduler queues a task instance whose upstream tasks all succeeded,
\* for its first try or for its retry
task_start ==
    \E t \in Tasks :
        /\ task_state[t] \in {"none", "up_for_retry"}
        /\ \A u \in Upstream(t) : task_state[u] = "success"
        /\ task_state' = [task_state EXCEPT ![t] = "running"]
        /\ try_number' = [try_number EXCEPT ![t] = @ + 1]
        /\ UNCHANGED <<telegram, engine_vars, iteration_vars, trend_vars>>

\* the callable returns; task_notify_success has sent its message, and
\* generate_visualizations the message at its end
task_success ==
    \E t \in Tasks :
        /\ task_state[t] = "running"
        /\ task_state' = [task_state EXCEPT ![t] = "success"]
        /\ telegram' =
              IF t = "notify_success" THEN Append(telegram, DagCompleted)
              ELSE IF t = "generate_visualizations"
                  THEN Append(telegram, PipelineCompleted)
              ELSE telegram
        /\ UNCHANGED <<try_number, engine_vars, iteration_vars, trend_vars>>

\* the callable raises: the task is retried once, then it fails and its
\* on_failure_callback runs; generate_visualizations may raise in
\* send_telegram_document, after its own message went out
task_failure ==
    \E t \in Tasks : \E sent \in BOOLEAN :
        /\ task_state[t] = "running"
        /\ sent => t = "generate_visualizations"
        /\ task_state' = [task_state EXCEPT ![t] =
                            IF try_number[t] <= retries THEN "up_for_retry"
                            ELSE "failed"]
        /\ telegram' =
              (IF sent THEN Append(telegram, PipelineCompleted) ELSE telegram)
              \o (IF try_number[t] > retries /\ HasFailureCallback(t)
                  THEN <<DagFailed>> ELSE <<>>)
        /\ UNCHANGED <<try_number, engine_vars, iteration_vars, trend_vars>>

\* all_success: a task one of whose upstream tasks failed is never run
task_upstream_failed ==
    \E t \in Tasks :
        /\ task_state[t] = "none"
        /\ \E u \in Upstream(t) : task_state[u] \in {"failed", "upstream_failed"}
        /\ task_state' = [task_state EXCEPT ![t] = "upstream_failed"]
        /\ UNCHANGED <<try_number, telegram, engine_vars, iteration_vars, trend_vars>>

NextDag ==
    \/ task_start
    \/ task_success
    \/ task_failure
    \/ task_upstream_failed

SpecDag == InitDag /\ [][NextDag]_vars

\* the place of a task in the claimed order of the stages; the two
\* forecasters share a place
Stage(t) ==
    IF t = "generate_historical_data" THEN 1
    ELSE IF t = "collect_trends" THEN 2
    ELSE IF t = "preprocess_data" THEN 3
    ELSE IF t \in {"forecast_prophet", "forecast_lstm"} THEN 4
    ELSE IF t = "generate_visualizations" THEN 5
    ELSE 6

Started(t) == task_state[t] \in {"running", "up_for_retry", "success", "failed"}

\* C18: in every run of the DAG a stage is started, for its first try or
\* its retry, only when every task of every earlier stage has succeeded, and
\* a started stage has all of them succeeded; nothing orders the two
\* forecasters with respect to each other; the message of notify_success is
\* sent only when both forecasters and the visualization have succeeded.
C18_StagesInOrder ==
    /\ [](\A t \in Tasks : Started(t) =>
            \A u \in Tasks : Stage(u) < Stage(t) => task_state[u] = "success")
    /\ [](DagCompleted \in SeqToSet(telegram) =>
            \A u \in {"forecast_prophet", "forecast_lstm", "generate_visualizations"} :
                task_state[u] = "success")
    /\ [][\A t \in Tasks :
            (task_state[t] # "running" /\ task_state'[t] = "running") =>
                \A u \in Tasks : Stage(u) < Stage(t) => task_state[u] = "success"]_vars

\* the Sequence Forecaster has succeeded while the Seasonal Forecaster is
\* still running, on its retry; the visualization has not been started
C18_Witness ==
    /\ task_state["forecast_lstm"] = "success"
    /\ task_state["forecast_prophet"] = "running"
    /\ try_number["forecast_prophet"] = 2
    /\ try_number["forecast_lstm"] = 1
    /\ task_state["generate_visualizations"] = "none"
    /\ task_state["preprocess_data"] = "success"

(***************************************************************************)
(* The module generate_daily_sales in one process: trend_cache and the     *)
(* calls of get_trend_score, whatever the trend service answers.           *)
(***************************************************************************)
\* float(data[brand].iloc[-1]): interest over time is scored 0 .. 100
ServiceScores == {0, 57, 100}

\* random.uniform(30, 80)
FallbackScores == {30, 55, 80}

\* the cache never consulted
cached_never(cache, brand) == FALSE

\* brand in trend_cache
cached(cache, brand) == brand \in DOMAIN cache

\* trend_cache[brand] = score
store(cache, brand, score) ==
    [b \in DOMAIN cache \cup {brand} |-> IF b = brand THEN score ELSE cache[b]]

InitTrend ==
    /\ EngineIdle /\ IterationIdle /\ DagIdle
    /\ TrendIdle

\* the query of lines 42-43 and what the call makes of its outcome
Fetch(brand, outcome, score) ==
    /\ ~cached(trend_cache, brand)
    /\ fetched' = [fetched EXCEPT ![brand] = Append(@, outcome)]
    /\ trend_cache' = store(trend_cache, brand, score)
    /\ returned' = Append(returned, [brand |-> brand, kind |-> "value", score |-> score])

\* one call get_trend_score(brand)
get_trend_score ==
    /\ Len(returned) < MaxCalls
    /\ \E brand \in TrendBrands :
        \/ \* line 35: the cached score
           /\ cached(trend_cache, brand)
           /\ returned' = Append(returned, [brand |-> brand, kind |-> "value",
                                            score |-> trend_cache[brand]])
           /\ UNCHANGED <<trend_cache, fetched>>
        \/ \* line 39: TrendReq(...) fetches a cookie outside the try and may raise
           /\ ~cached(trend_cache, brand)
           /\ returned' = Append(returned, [brand |-> brand, kind |-> "raise", score |-> 0])
           /\ UNCHANGED <<trend_cache, fetched>>
        \/ \* lines 44-45: the last value of the series
           \E score \in ServiceScores : Fetch(brand, "data", score)
        \/ \* lines 46-47: no data
           \E score \in FallbackScores : Fetch(brand, "empty", score)
        \/ \* lines 48-50: the query raised
           \E score \in FallbackScores : Fetch(brand, "error", score)
    /\ UNCHANGED <<engine_vars, iteration_vars, dag_vars>>

NextTrend == get_trend_score

SpecTrend == InitTrend /\ [][NextTrend]_vars

\* the calls for brand b that returned a score, in order
ScoresReturned(b) ==
    SelectSeq(returned, LAMBDA c : c.brand = b /\ c.kind = "value")

\* C19: within one process the trend service is queried at most once per
\* brand, every call for a brand returns the score of the first call that
\* returned one for it, and that holds when the query failed or gave no
\* data and a fallback score from [30, 80] was cached.
C19_CachedScore ==
    \A b \in TrendBrands :
        LET r == ScoresReturned(b)
        IN  /\ Len(fetched[b]) <= 1
            /\ \A i \in DOMAIN r : r[i].score = r[1].score
            /\ r # <<>> => Len(fetched[b]) = 1 /\ trend_cache[b] = r[1].score
            /\ (fetched[b] # <<>> /\ fetched[b][1] \in {"empty", "error"}) =>
                    30 <= trend_cache[b] /\ trend_cache[b] <= 80

\* a brand whose query failed was called for three times and got the cached
\* fallback score each time, the other brand once
C19_Witness ==
    \E b \in TrendBrands : \E o \in TrendBrands \ {b} :
        /\ fetched[b] = <<"error">>
        /\ Len(ScoresReturned(b)) = 3
        /\ Len(ScoresReturned(o)) = 1
        /\ fetched[o] = <<"data">>

\* C21: in the Seasonal Forecaster floor(0.8 * n) >= 2 and
\* n - floor(0.8 * n) >= 1 for every n >= 3, and every brand that passes
\* the row guard has a training split of at least 2 rows and a non-empty
\* holdout split: it is skipped by a later guard only when its training
\* split holds a missing value, never for an empty test set.
C21_SplitNeverDegenerate ==
    /\ \A n \in 3..(MaxRows + 3) :
         /\ train_size(n) = Floor80(n)
         /\ train_size(n) >= 2
         /\ n - train_size(n) >= 1
    /\ \A b \in Reached("prophet") :
         LET p == prophet_df(df["prophet"], b)
             train == split_train(p)
             test == split_test(p)
             cols == prophet_cols(df["prophet"])
         IN  ~InsufficientRows(Len(p)) =>
                /\ Len(train) >= 2
                /\ Len(test) >= 1
                /\ test # <<>>
                /\ TrainUnusable(train, cols) => HasNull(train, cols)
                /\ prophet_skips(p, cols) =>
                     /\ HasNull(train, cols)
                     /\ RowsFor(forecasts["prophet"], b) = <<>>

\* the run is over: a brand of exactly 3 usable rows was split 2 / 1 and
\* forecast, and a brand that passed the row guard was skipped for a
\* missing value in its training split
C21_Witness ==
    /\ pc["prophet"] = "done"
    /\ \E a \in Reached("prophet") : \E b \in Reached("prophet") :
        LET pa == prophet_df(df["prophet"], a)
            pb == prophet_df(df["prophet"], b)
        IN  /\ Len(pa) >= 3
            /\ HasNull(split_train(pa), prophet_cols(df["prophet"]))
            /\ RowsFor(forecasts["prophet"], a) = <<>>
            /\ Len(pb) = 3
            /\ Len(split_train(pb)) = 2 /\ Len(split_test(pb)) = 1
            /\ RowsFor(forecasts["prophet"], b) # <<>>

\* the step that ends a forecaster's loop over the brands
LoopFinished(m) == pc[m] = "loop" /\ todo[m] = <<>> /\ pc'[m] = "done"

\* what an earlier run left in the output directory, or nothing
LeftByEarlierRun(m) ==
    \/ forecastFile[m] = Absent /\ metricsFile[m] = Absent
    \/ forecastFile[m] = File(StaleForecast) /\ metricsFile[m] = File(StaleMetrics)

\* C22: each forecaster writes its forecast file and its metrics file only
\* in the step that follows the loop over all brands, both in that one
\* step and from the collected rows; in every other step, and in that step
\* when no brand produced a forecast, both files are left as they were, so
\* until a forecaster has collected a forecast and finished, its files are
\* absent or hold what the earlier run left.
C22_FilesWrittenTogetherAfterLoop ==
    /\ [][\A m \in Models :
            IF LoopFinished(m) /\ forecasts[m] # <<>>
            THEN /\ forecastFile'[m] =
                      File([cols |-> forecast_columns(m), rows |-> forecasts[m]])
                 /\ metricsFile'[m] =
                      File([cols |-> metrics_columns, rows |-> metrics[m]])
            ELSE /\ forecastFile'[m] = forecastFile[m]
                 /\ metricsFile'[m] = metricsFile[m]]_vars
    /\ [](\A m \in Models :
            (pc[m] # "done" \/ forecasts[m] = <<>>) => LeftByEarlierRun(m))

\* both forecasters are done over the table an earlier run left: the
\* Deep-Learning Forecaster produced no forecast and the earlier run's files
\* are still there, the Seasonal Forecaster replaced both of its files
C22_Witness ==
    /\ pc["lstm"] = "done" /\ pc["prophet"] = "done"
    /\ forecasts["lstm"] = <<>>
    /\ forecastFile["lstm"] = File(StaleForecast)
    /\ metricsFile["lstm"] = File(StaleMetrics)
    /\ forecasts["prophet"] # <<>>
    /\ forecastFile["prophet"] =
         File([cols |-> forecast_columns("prophet"), rows |-> forecasts["prophet"]])
    /\ metricsFile["prophet"] =
         File([cols |-> metrics_columns, rows |-> metrics["prophet"]])
    /\ metrics["prophet"] # <<>>

====
